---- MODULE Spec2Model ----
(***************************************************************************)
(* Curl-noise particle effect on an LED panel (src/main.rs, src/simplex.rs) *)
(*                                                                         *)
(* Three specifications share the variables below:                        *)
(*   Spec      the frame loop of main (fill, per-particle update, vsync),  *)
(*   SpecBuild the one-time build of the vector field,                     *)
(*   SpecNoise the simplex noise evaluator and the curl transform.         *)
(*                                                                         *)
(* f64 values are kept in fixed point.  A particle coordinate is an        *)
(* integer number of 1/Unit (1/100); a field vector component and the      *)
(* particle speed are integer numbers of tenths, so that the product       *)
(* vector * PARTICLE_SPEED is a whole number of 1/100 and the comparisons  *)
(* of the wrap are exact.                                                  *)
(*                                                                         *)
(* The frame loop is checked for every content of the vector field: Spec   *)
(* keeps in vector_field the entries the loop has read, and the first read *)
(* of an entry fixes it to one of Vectors.  SpecBuild builds the field     *)
(* from the evaluator, entry by entry.                                     *)
(***************************************************************************)
EXTENDS Integers, Sequences, FiniteSets, TLC

VARIABLES
    pc,            \* position of main in the frame loop
    step,          \* the loop counter of `for step in 0..`
    p,             \* index of the particle the inner loop is at
    particles,     \* Vec<Particle>: records [rgb, x, y]
    vector_field,  \* the entries of vector_field read so far: idx -> vector
    canvas,        \* the buffer main holds: pixel -> colour, background elsewhere
    frame,         \* the buffer the display holds, last handed to update_on_vsync
    locals,        \* this frame's loop-body locals, one record per particle processed
    reported,      \* the steps at which the framerate was printed
    rows,          \* canvas.rows()
    columns,       \* canvas.cols()
    bx,            \* x of the field-building loop
    by,            \* y of the field-building loop
    sample,        \* the point handed to the noise evaluator: <<x, y, time>>
    noise          \* what the evaluator returned for it

frame_vars == <<step, p, particles, canvas, frame, locals, reported>>
build_vars == <<bx, by>>
noise_vars == <<sample, noise>>
vars == <<pc, vector_field, rows, columns, frame_vars, build_vars, noise_vars>>

(***************************************************************************)
(* Constants of the program and bounds of the model                        *)
(***************************************************************************)
ROWS == 64
COLUMNS == 64
pixel_count == rows * columns
WRAP_BOUND == 64
REPORT_EVERY == 120
\* PARTICLE_SPEED = 0.1, in tenths
PARTICLE_SPEED == 1
\* coordinate units per 1.0
Unit == 10 * 10

\* curl_noise_2d(&coords, 1f64)
FIELD_TIME == 1

\* 256 in the program; the model runs a small population
PARTICLE_COUNT == 2
\* iterations of the frame loop the model follows
MaxSteps == 2
\* SpecBuild also builds the field of every panel of up to MaxDim x MaxDim
MaxDim == 4
\* SpecNoise evaluates at every point with coordinates of up to MaxCoord twelfths
MaxCoord == 12
\* the tolerance of the divergence estimate, in whole units
DivTol == 4

Background == <<0, 0, 0>>
Colours == {<<255, 0, 0>>, <<0, 0, 255>>}
\* start coordinates 0.05 and 63.95, both inside gen_range(0.0..64.0)
StartCoords == {5, 64 * Unit - 5}
\* the field vectors the model lets a cell hold: (1, 1) and (-1, -1), in tenths
Vectors == {<<10, 10>>, <<-10, -10>>}

Panel == (0 .. rows - 1) \X (0 .. columns - 1)

(***************************************************************************)
(* simplex.rs: 3D simplex noise with its derivatives                       *)
(*                                                                         *)
(* The evaluator is computed in exact arithmetic.  A coordinate is an      *)
(* integer number of 1/Grain (twelfths); F3 is 1/3 and G3 is 1/6, so an    *)
(* offset is a whole number of twelfths and t = 0.5 - |offset|^2 is a      *)
(* whole number of 1/144.  The returned derivative is a triple of          *)
(* numerators over DerivDen, the returned value a numerator over ValueDen. *)
(* Where the f64 code sits on a tie (a skewed coordinate that is a whole   *)
(* number, two equal offsets, t = 0) rounding may take it to the           *)
(* neighbouring cell or ordering; the value it returns is the same up to   *)
(* rounding, the noise being continuous there.                             *)
(***************************************************************************)
Grain == 12
\* t = 0.5 - |offset|^2 is a number of 1/TDen
TDen == Grain * Grain
\* the derivative 72 * S / TDen^4 , as S / DerivDen
DerivDen == (TDen * TDen * TDen * TDen) \div 72
\* the value 72 * N / (TDen^4 * Grain), as N / ValueDen
ValueDen == DerivDen * Grain

SEED == <<
    210, 251, 147, 139, 214, 27, 149, 231, 162, 19, 136, 158, 232, 78, 82, 140,
    37, 208, 50, 73, 79, 79, 240, 100, 144, 14, 172, 250, 59, 61, 226, 229,
    69, 197, 143, 251, 125, 115, 197, 14, 102, 150, 63, 90, 157, 224, 161, 42,
    42, 30, 183, 133, 168, 157, 150, 206, 221, 140, 70, 192, 153, 25, 7, 167,
    9, 246, 218, 174, 99, 134, 163, 46, 38, 189, 228, 223, 54, 147, 16, 144,
    213, 83, 59, 156, 31, 1, 80, 132, 0, 182, 205, 177, 79, 77, 230, 153,
    109, 231, 185, 24, 253, 191, 193, 13, 2, 86, 95, 118, 181, 161, 179, 129,
    203, 23, 170, 111, 174, 225, 188, 166, 123, 12, 163, 123, 206, 225, 80, 194,
    191, 98, 248, 239, 155, 8, 102, 239, 133, 94, 194, 134, 42, 118, 102, 56,
    28, 219, 202, 219, 150, 200, 3, 195, 36, 127, 57, 219, 179, 150, 75, 64,
    148, 153, 126, 240, 121, 210, 216, 5, 149, 205, 10, 160, 247, 191, 137, 139,
    210, 181, 189, 85, 237, 145, 75, 77, 97, 97, 181, 143, 93, 151, 166, 8,
    176, 97, 182, 14, 126, 38, 187, 145, 23, 239, 64, 55, 203, 45, 25, 8,
    237, 122, 43, 16, 17, 20, 216, 6, 31, 202, 232, 133, 163, 56, 210, 81,
    169, 252, 245, 38, 160, 198, 172, 165, 234, 78, 77, 96, 32, 58, 126, 196,
    117, 140, 247, 94, 203, 166, 232, 198, 143, 247, 126, 175, 42, 21, 185, 70,
    210, 251, 147, 139, 214, 27, 149, 231, 162, 19, 136, 158, 232, 78, 82, 140,
    37, 208, 50, 73, 79, 79, 240, 100, 144, 14, 172, 250, 59, 61, 226, 229,
    69, 197, 143, 251, 125, 115, 197, 14, 102, 150, 63, 90, 157, 224, 161, 42,
    42, 30, 183, 133, 168, 157, 150, 206, 221, 140, 70, 192, 153, 25, 7, 167,
    9, 246, 218, 174, 99, 134, 163, 46, 38, 189, 228, 223, 54, 147, 16, 144,
    213, 83, 59, 156, 31, 1, 80, 132, 0, 182, 205, 177, 79, 77, 230, 153,
    109, 231, 185, 24, 253, 191, 193, 13, 2, 86, 95, 118, 181, 161, 179, 129,
    203, 23, 170, 111, 174, 225, 188, 166, 123, 12, 163, 123, 206, 225, 80, 194,
    191, 98, 248, 239, 155, 8, 102, 239, 133, 94, 194, 134, 42, 118, 102, 56,
    28, 219, 202, 219, 150, 200, 3, 195, 36, 127, 57, 219, 179, 150, 75, 64,
    148, 153, 126, 240, 121, 210, 216, 5, 149, 205, 10, 160, 247, 191, 137, 139,
    210, 181, 189, 85, 237, 145, 75, 77, 97, 97, 181, 143, 93, 151, 166, 8,
    176, 97, 182, 14, 126, 38, 187, 145, 23, 239, 64, 55, 203, 45, 25, 8,
    237, 122, 43, 16, 17, 20, 216, 6, 31, 202, 232, 133, 163, 56, 210, 81,
    169, 252, 245, 38, 160, 198, 172, 165, 234, 78, 77, 96, 32, 58, 126, 196,
    117, 140, 247, 94, 203, 166, 232, 198, 143, 247, 126, 175, 42, 21, 185, 70
>>

GRADIANTS_3D == <<
    <<1, 1, 0>>, <<-1, 1, 0>>, <<1, -1, 0>>, <<-1, -1, 0>>,
    <<1, 0, 1>>, <<-1, 0, 1>>, <<1, 0, -1>>, <<-1, 0, -1>>,
    <<0, 1, 1>>, <<0, -1, 1>>, <<0, 1, -1>>, <<0, -1, -1>>
>>

Dot(a, b) == a[1] * b[1] + a[2] * b[2] + a[3] * b[3]

\* (position.c + skew_factor).floor(), skew_factor = F3 * (x + y + z)
SkewedCell(pos) ==
    [a \in 1 .. 3 |-> (3 * pos[a] + pos[1] + pos[2] + pos[3]) \div (3 * Grain)]

\* offsets[0]: position - (cell - unskew_factor), unskew_factor = G3 * (i + j + k)
FirstOffset(pos, cell) ==
    [a \in 1 .. 3 |->
        pos[a] - Grain * cell[a] + (Grain \div 6) * (cell[1] + cell[2] + cell[3])]

\* (i1, j1, k1, i2, j2, k2) of the simplex the point is in
SimplexOrder(o) ==
    IF o[1] >= o[2]
    THEN IF o[2] >= o[3] THEN <<1, 0, 0, 1, 1, 0>>
         ELSE IF o[1] >= o[3] THEN <<1, 0, 0, 1, 0, 1>>
         ELSE <<0, 0, 1, 1, 0, 1>>
    ELSE IF o[2] < o[3] THEN <<0, 0, 1, 0, 1, 1>>
         ELSE IF o[1] < o[3] THEN <<0, 1, 0, 0, 1, 1>>
         ELSE <<0, 1, 0, 1, 1, 0>>

\* the lattice steps to the four corners
CornerSteps(ord) ==
    << <<0, 0, 0>>, <<ord[1], ord[2], ord[3]>>, <<ord[4], ord[5], ord[6]>>, <<1, 1, 1>> >>

\* offsets[c]: offsets[0] - step + (c - 1) * G3
CornerOffsets(o0, ord) ==
    [c \in 1 .. 4 |->
        [a \in 1 .. 3 |->
            o0[a] - Grain * CornerSteps(ord)[c][a] + (c - 1) * (Grain \div 6)]]

\* no mask: the lattice index is used as it is
Mask_none(i) == i

\* i &= 0xFF on an i64
Mask(i) == i % 256

InTable(idx) == 0 <= idx /\ idx < Len(SEED)

\* SEED[idx]; an index off the table panics, and no later read happens
Read(idx) == IF InTable(idx) THEN SEED[idx + 1] ELSE 0

\* the three chained reads of SEED for the corner at lattice step d, and the
\* index into GRADIANTS_3D they give
Lookups(cell, d) ==
    LET k == Mask(cell[3]) + d[3]
        j == Mask(cell[2]) + d[2] + Read(k)
        i == Mask(cell[1]) + d[1] + Read(j)
    IN [k |-> k, j |-> j, i |-> i, g |-> Read(i) % 12]

\* one corner's share of (n, derivatives), zero when t < 0
Contribution(offset, g) ==
    LET tn == (TDen \div 2) - Dot(offset, offset)
        t2 == tn * tn
        t4 == t2 * t2
        gradient == GRADIANTS_3D[g + 1]
        grad_dot == Dot(gradient, offset)
    IN IF tn < 0
       THEN [n |-> 0, d |-> <<0, 0, 0>>]
       ELSE [n |-> t4 * grad_dot,
             d |-> [a \in 1 .. 3 |->
                       (0 - 8) * TDen * t2 * offset[a] * grad_dot + t4 * gradient[a]]]

with_derivatives_3d(pos) ==
    LET cell == SkewedCell(pos)
        o0 == FirstOffset(pos, cell)
        ord == SimplexOrder(o0)
        offsets == CornerOffsets(o0, ord)
        looks == [c \in 1 .. 4 |-> Lookups(cell, CornerSteps(ord)[c])]
        part == [c \in 1 .. 4 |-> Contribution(offsets[c], looks[c].g)]
    IN [evaluated |-> TRUE,
        cell |-> cell,
        order |-> ord,
        offsets |-> offsets,
        lookups |-> looks,
        n |-> part[1].n + part[2].n + part[3].n + part[4].n,
        derivatives |->
            [a \in 1 .. 3 |-> part[1].d[a] + part[2].d[a] + part[3].d[a] + part[4].d[a]]]

NotEvaluated == [evaluated |-> FALSE]

(***************************************************************************)
(* main.rs: the curl transform                                             *)
(***************************************************************************)
curl_2d(derivatives) == <<derivatives[2], 0 - derivatives[1]>>

curl_noise_2d(coordinates, time) ==
    curl_2d(with_derivatives_3d(<<coordinates[1], coordinates[2], time>>).derivatives)

(***************************************************************************)
(* The loop body of main, as operators                                     *)
(***************************************************************************)
\* `coords.floor() as usize`: the cast saturates a negative value to 0
Quantize(c) == IF c < 0 THEN 0 ELSE c \div Unit

saturating_sub(a, b) == IF a >= b THEN a - b ELSE 0

\* let idx = y.saturating_sub(1) * rows + x
FieldIndex(x, y) == saturating_sub(y, 1) * rows + x

\* a set_pixel that keeps the colour a pixel already has
set_pixel_keep(cv, x, y, rgb) ==
    IF <<x, y>> \in Panel /\ <<x, y>> \notin DOMAIN cv
    THEN (<<x, y>> :> rgb) @@ cv ELSE cv

\* canvas.set_pixel of the display crate: a pixel off the panel is ignored
set_pixel(cv, x, y, rgb) ==
    IF <<x, y>> \in Panel THEN (<<x, y>> :> rgb) @@ cv ELSE cv

\* canvas.fill(0, 0, 0): every pixel is the background
fill == <<>>

PixelOf(cv, px) == IF px \in DOMAIN cv THEN cv[px] ELSE Background

InPanel(c) == 0 <= c /\ c <= WRAP_BOUND * Unit

\* particle.coords += vector * PARTICLE_SPEED, one component
Advect(c, v) == c + v * PARTICLE_SPEED

\* a wrap that keeps the overshoot remainder
Wrap_modulo(c) == c % (WRAP_BOUND * Unit)

\* the two wrap tests of one axis, in the order of the code
Wrap(c) ==
    LET c1 == IF c > WRAP_BOUND * Unit THEN 0 ELSE c
    IN IF c1 < 0 THEN WRAP_BOUND * Unit ELSE c1

\* an update that respawns a particle that left the panel
Moved_respawn(part, v) ==
    LET x == Advect(part.x, v[1])
        y == Advect(part.y, v[2])
    IN IF InPanel(x) /\ InPanel(y)
       THEN [part EXCEPT !.x = x, !.y = y]
       ELSE [rgb |-> Background, x |-> Wrap(x), y |-> Wrap(y)]

\* the particle after lines 78-95
Moved(part, v) ==
    [part EXCEPT !.x = Wrap(Advect(part.x, v[1])),
                 !.y = Wrap(Advect(part.y, v[2]))]

(***************************************************************************)
(* The frame loop                                                          *)
(***************************************************************************)
BuildIdle == bx = 0 /\ by = 0

NoiseIdle == sample = <<0, 0, 0>> /\ noise = NotEvaluated

FrameIdle ==
    /\ step = 0
    /\ p = 1
    /\ particles = <<>>
    /\ canvas = fill
    /\ frame = fill
    /\ locals = <<>>
    /\ reported = {}

ParticleInits ==
    [rgb : Colours, x : StartCoords, y : StartCoords]

Init ==
    /\ pc = "fill"
    /\ step = 0
    /\ p = 1
    /\ particles \in [1 .. PARTICLE_COUNT -> ParticleInits]
    /\ vector_field = <<>>
    /\ canvas = fill
    /\ frame = fill
    /\ locals = <<>>
    /\ reported = {}
    /\ rows = ROWS
    /\ columns = COLUMNS
    /\ BuildIdle
    /\ NoiseIdle

\* line 64
Fill ==
    /\ pc = "fill"
    /\ canvas' = fill
    /\ locals' = <<>>
    /\ p' = 1
    /\ pc' = IF Len(particles) = 0 THEN "vsync" ELSE "particles"
    /\ UNCHANGED <<step, particles, vector_field, frame, reported>>
    /\ UNCHANGED <<rows, columns, build_vars, noise_vars>>

\* lines 66-96, one particle
UpdateParticle ==
    /\ pc = "particles"
    /\ p <= Len(particles)
    /\ LET part == particles[p]
           x == Quantize(part.x)
           y == Quantize(part.y)
           idx == FieldIndex(x, y)
       IN /\ canvas' = set_pixel(canvas, x, y, part.rgb)
          /\ IF idx >= pixel_count
             THEN \* vector_field[idx] panics: index out of bounds
                  /\ pc' = "abort"
                  /\ locals' = Append(locals,
                         [x |-> x, y |-> y, idx |-> idx, read |-> FALSE,
                          moved |-> <<part.x, part.y>>])
                  /\ UNCHANGED <<p, particles, vector_field>>
             ELSE \E v \in Vectors :
                  /\ idx \in DOMAIN vector_field => v = vector_field[idx]
                  /\ vector_field' = (idx :> v) @@ vector_field
                  /\ particles' = [particles EXCEPT ![p] = Moved(part, v)]
                  /\ locals' = Append(locals,
                         [x |-> x, y |-> y, idx |-> idx, read |-> TRUE,
                          moved |-> <<Advect(part.x, v[1]), Advect(part.y, v[2])>>])
                  /\ p' = p + 1
                  /\ pc' = IF p = Len(particles) THEN "vsync" ELSE "particles"
    /\ UNCHANGED <<step, frame, reported>>
    /\ UNCHANGED <<rows, columns, build_vars, noise_vars>>

\* line 98: the display takes the drawn buffer and hands back the one it showed
UpdateOnVsync ==
    /\ pc = "vsync"
    /\ frame' = canvas
    /\ canvas' = frame
    /\ pc' = "report"
    /\ UNCHANGED <<step, p, particles, vector_field, locals, reported>>
    /\ UNCHANGED <<rows, columns, build_vars, noise_vars>>

\* lines 100-103 and the next value of step
Report ==
    /\ pc = "report"
    /\ step < MaxSteps
    /\ reported' = IF step % REPORT_EVERY = 0 THEN reported \cup {step} ELSE reported
    /\ step' = step + 1
    /\ pc' = "fill"
    /\ UNCHANGED <<p, particles, vector_field, canvas, frame, locals>>
    /\ UNCHANGED <<rows, columns, build_vars, noise_vars>>

Next == Fill \/ UpdateParticle \/ UpdateOnVsync \/ Report

Spec == Init /\ [][Next]_vars

(***************************************************************************)
(* The build of the vector field (main.rs lines 26-41)                      *)
(***************************************************************************)
PanelSizes == {<<ROWS, COLUMNS>>} \cup ((1 .. MaxDim) \X (1 .. MaxDim))

\* Point2::new(y as f64, x as f64)
CellCoords_swapped(x, y) == <<Grain * y, Grain * x>>

\* Point2::new(x as f64, y as f64)
CellCoords(x, y) == <<Grain * x, Grain * y>>

\* Vec::push
push(vec, v) == (Cardinality(DOMAIN vec) :> v) @@ vec

InitBuild ==
    /\ pc = "build"
    /\ \E size \in PanelSizes : rows = size[1] /\ columns = size[2]
    /\ vector_field = <<>>
    /\ BuildIdle
    /\ FrameIdle
    /\ NoiseIdle

\* lines 35-39, and the step of `for y in 0..columns { for x in 0..rows`
PushVector ==
    /\ pc = "build"
    /\ by < columns
    /\ bx < rows
    /\ vector_field' =
           push(vector_field, curl_noise_2d(CellCoords(bx, by), Grain * FIELD_TIME))
    /\ IF bx + 1 < rows
       THEN bx' = bx + 1 /\ by' = by
       ELSE bx' = 0 /\ by' = by + 1
    /\ pc' = IF bx + 1 = rows /\ by + 1 = columns THEN "built" ELSE "build"
    /\ UNCHANGED <<rows, columns, frame_vars, noise_vars>>

NextBuild == PushVector

SpecBuild == InitBuild /\ [][NextBuild]_vars

(***************************************************************************)
(* The noise evaluator and the curl transform on sample points             *)
(***************************************************************************)
Samples == (-MaxCoord .. MaxCoord) \X (-MaxCoord .. MaxCoord) \X (-MaxCoord .. MaxCoord)

InitNoise ==
    /\ pc = "sample"
    /\ sample \in Samples
    /\ noise = NotEvaluated
    /\ rows = ROWS
    /\ columns = COLUMNS
    /\ vector_field = <<>>
    /\ BuildIdle
    /\ FrameIdle

\* curl_noise_2d(&(x, y), time), with what with_derivatives_3d returned to it
CurlNoise ==
    /\ pc = "sample"
    /\ noise' = [with_derivatives_3d(sample) EXCEPT
                    !.evaluated = TRUE] @@
                [vector |-> curl_noise_2d(<<sample[1], sample[2]>>, sample[3])]
    /\ pc' = "sampled"
    /\ UNCHANGED <<sample, vector_field, rows, columns, frame_vars, build_vars>>

NextNoise == CurlNoise

SpecNoise == InitNoise /\ [][NextNoise]_vars

(***************************************************************************)
(* Claims about the frame loop (specification Spec)                        *)
(***************************************************************************)
InRange(c) == 0 <= c /\ c < WRAP_BOUND * Unit

\* C1: every particle's x and y stay in the half-open range [0, 64) after any
\* number of updates.
C1_PositionInHalfOpenRange ==
    \A i \in 1 .. Len(particles) :
        InRange(particles[i].x) /\ InRange(particles[i].y)

\* C2: a coordinate that is above 64 after advection becomes exactly 0, one that
\* is below 0 becomes exactly 64, any other is kept, each axis on its own; a
\* particle advected to (64.05, 64.05) from (63.95, 63.95) is at (0, 0).
WrapOf(moved, now) ==
    /\ moved > WRAP_BOUND * Unit => now = 0
    /\ moved < 0 => now = WRAP_BOUND * Unit
    /\ (0 <= moved /\ moved <= WRAP_BOUND * Unit) => now = moved

C2_WrapExact ==
    \A k \in 1 .. Len(locals) :
        locals[k].read =>
            /\ WrapOf(locals[k].moved[1], particles[k].x)
            /\ WrapOf(locals[k].moved[2], particles[k].y)
            /\ locals[k].moved = <<64 * Unit + 5, 64 * Unit + 5>>
                   => particles[k].x = 0 /\ particles[k].y = 0

\* a frame in which one particle went from (63.95, 63.95) by (1, 1) * 0.1 to
\* (0, 0), and another left through the low edge of one axis only
C2_Witness ==
    /\ \E k \in 1 .. Len(locals) :
          /\ locals[k].read
          /\ locals[k].x = 63 /\ locals[k].y = 63
          /\ locals[k].moved = <<64 * Unit + 5, 64 * Unit + 5>>
          /\ particles[k].x = 0 /\ particles[k].y = 0
    /\ \E k \in 1 .. Len(locals) :
          /\ locals[k].read
          /\ locals[k].moved[1] < 0 /\ particles[k].x = WRAP_BOUND * Unit
          /\ InRange(locals[k].moved[2]) /\ particles[k].y = locals[k].moved[2]

\* C3: a lookup for a particle whose quantized cell is off the panel fails; it
\* never reads an entry of the field.
C3_OffPanelLookupFails ==
    \A k \in 1 .. Len(locals) :
        <<locals[k].x, locals[k].y>> \notin Panel => ~locals[k].read

\* C4: the frame handed to the display holds, at every pixel, the colour of the
\* last particle in population order that was drawn there in this iteration,
\* and the background where none was.
DrawnAt(px) == {k \in 1 .. Len(locals) : <<locals[k].x, locals[k].y>> = px}

Last(S) == CHOOSE k \in S : \A j \in S : j <= k

C4_PresentedFrame ==
    pc = "report" =>
        /\ Len(locals) = Len(particles)
        /\ \A px \in Panel :
              PixelOf(frame, px) =
                  IF DrawnAt(px) = {} THEN Background
                  ELSE particles[Last(DrawnAt(px))].rgb

\* a presented frame, not the first, in which two particles of different
\* colours were drawn at one pixel and some particle has left its old pixel
C4_Witness ==
    /\ pc = "report"
    /\ step >= 1
    /\ \E j, k \in 1 .. Len(locals) :
          /\ j < k
          /\ locals[j].x = locals[k].x /\ locals[j].y = locals[k].y
          /\ particles[j].rgb # particles[k].rgb
          /\ <<locals[k].x, locals[k].y>> \in Panel
          /\ PixelOf(frame, <<locals[k].x, locals[k].y>>) = particles[k].rgb
    /\ \E k \in 1 .. Len(locals) : locals[k].x = 0 /\ locals[k].y = 0

\* C6: the population stays PARTICLE_COUNT particles, no step changes a
\* particle's colour, and no step changes an entry of the vector field.
C6_StepChangesPositionsOnly ==
    /\ [](Len(particles) = PARTICLE_COUNT)
    /\ [][/\ DOMAIN particles' = DOMAIN particles
          /\ \A i \in DOMAIN particles : particles'[i].rgb = particles[i].rgb
          /\ \A idx \in DOMAIN vector_field :
                /\ idx \in DOMAIN vector_field'
                /\ vector_field'[idx] = vector_field[idx]]_vars

\* two iterations in, with a particle moved and a field entry read twice
C6_Witness ==
    /\ step >= 1
    /\ pc = "vsync"
    /\ \E i \in DOMAIN particles :
          /\ particles[i].x \notin StartCoords
          /\ locals[i].idx \in DOMAIN vector_field

C10_FieldIndexInGrid ==
    \A i \in 1 .. Len(particles) :
        LET idx == FieldIndex(Quantize(particles[i].x), Quantize(particles[i].y))
        IN 0 <= idx /\ idx < pixel_count

(***************************************************************************)
(* Claims about the build (specification SpecBuild)                        *)
(***************************************************************************)
Cells == (0 .. rows - 1) \X (0 .. columns - 1)

\* C5: the built field has rows * columns entries, (x, y) -> y * rows + x is a
\* bijection from the cells onto the indices of the field, and the entry at
\* y * rows + x is the curl vector of cell (x, y) at the build's time value.
C5_GridBuilt ==
    pc = "built" =>
        /\ DOMAIN vector_field = 0 .. rows * columns - 1
        /\ {c[2] * rows + c[1] : c \in Cells} = 0 .. rows * columns - 1
        /\ Cardinality({c[2] * rows + c[1] : c \in Cells}) = Cardinality(Cells)
        /\ \A c \in Cells :
              vector_field[c[2] * rows + c[1]] =
                  curl_2d(with_derivatives_3d(
                      <<Grain * c[1], Grain * c[2], Grain * FIELD_TIME>>).derivatives)

\* the field of a panel that is not square, built, with different vectors at
\* cells (1, 0) and (0, 1)
C5_Witness ==
    /\ pc = "built"
    /\ rows = MaxDim /\ columns = MaxDim - 1
    /\ Cardinality(DOMAIN vector_field) = rows * columns
    /\ vector_field[1] # vector_field[rows]

(***************************************************************************)
(* Claims about the evaluator (specification SpecNoise)                    *)
(***************************************************************************)
\* C8: each of the three chained reads of the permutation table, for each of
\* the four corners, is at an index in [0, 512), and the gradient index is in
\* [0, 12).
C8_LookupsInBounds ==
    noise.evaluated =>
        /\ Len(SEED) = 512
        /\ Len(GRADIANTS_3D) = 12
        /\ \A c \in 1 .. 4 :
            /\ 0 <= noise.lookups[c].k /\ noise.lookups[c].k < 512
            /\ 0 <= noise.lookups[c].j /\ noise.lookups[c].j < 512
            /\ 0 <= noise.lookups[c].i /\ noise.lookups[c].i < 512
            /\ 0 <= noise.lookups[c].g /\ noise.lookups[c].g < 12

\* a point of a lattice cell with negative i, j and k, whose fourth corner
\* reads the table at 256 and above
C8_Witness ==
    /\ noise.evaluated
    /\ noise.cell[1] < 0 /\ noise.cell[2] < 0 /\ noise.cell[3] < 0
    /\ noise.lookups[4].k = 256
    /\ noise.lookups[4].j > 256
    /\ noise.lookups[4].i > 256

\* C9: the divergence of the curl field, estimated by central differences of
\* step 1/Grain, is within DivTol of zero at every sample point.
\* (d(vx)/dx + d(vy)/dy) * DerivDen * 2 / Grain, as an integer
DivergenceEstimate(x, y, time) ==
    (curl_noise_2d(<<x + 1, y>>, time)[1] - curl_noise_2d(<<x - 1, y>>, time)[1])
  + (curl_noise_2d(<<x, y + 1>>, time)[2] - curl_noise_2d(<<x, y - 1>>, time)[2])

Abs(n) == IF n < 0 THEN 0 - n ELSE n

C9_DivergenceFree ==
    noise.evaluated =>
        /\ noise.vector = <<noise.derivatives[2], 0 - noise.derivatives[1]>>
        /\ Abs(DivergenceEstimate(sample[1], sample[2], sample[3])) * Grain
               <= 2 * DivTol * DerivDen

====
